---- MODULE Spec2Model ----
(***************************************************************************)
(* Model of homework_bot (src/homework.py, src/exceptions.py): the startup *)
(* credential check and the poll loop of main().                           *)
(*                                                                         *)
(* Python values are tagged records [type, val]; a dict is a TLA+ function *)
(* from its keys, a list a sequence.  The Russian string literals of the   *)
(* source are rendered in ASCII (the parser accepts no other characters);  *)
(* each keeps its own distinct text, and f-strings are concatenations.     *)
(* An exception travels as a record [raised |-> TRUE, exc, text], a return *)
(* value as [raised |-> FALSE, value].                                     *)
(***************************************************************************)
EXTENDS Integers, Sequences, FiniteSets, TLC

VARIABLES
    env,           \* PRACTICUM_TOKEN, TELEGRAM_TOKEN, TELEGRAM_CHAT_ID (module globals)
    pc,            \* "init" | "polling" | "sleeping" | "terminated"
    timestamp,     \* main(): the poll cursor
    last_message,  \* main(): text of the last alert, '' when none
    startup,       \* <<>> or <<result of check_tokens()>>
    exit_code,     \* <<>> while the process runs, else <<status>>
    log,           \* <<>> or <<record of the cycle that has just run>>
    prev,          \* <<>>, or <<[error, alerts, ...]>> when the cycle before the
                   \* one in log raised: its error text, how many alerts it
                   \* sent, whether an alert send failed, its from_date
    slept,         \* durations of the sleeps since the last cycle ended
    did,           \* which of "fetch", "notify", "sleep" ever happened
    handed,        \* <<>> or <<the cursor the loop start or the last cycle left>>
    unit,          \* <<>> or <<[fn, arg, result]>>: a direct call of a function
    reply          \* <<>> or <<what the HTTP request of the cycle in log met>>

vars == <<env, pc, timestamp, last_message, startup, exit_code, log, prev, slept,
          did, handed, unit, reply>>

-----------------------------------------------------------------------------
(* Bounds of the model *)

\* the longest homeworks list an API response carries
MaxRecs == 2
\* wall-clock times and current_date values range over 0..MaxDate
MaxDate == 2

-----------------------------------------------------------------------------
(* Python values *)

None == [type |-> "NoneType", val |-> "None"]
PyStr(s) == [type |-> "str", val |-> s]
PyInt(n) == [type |-> "int", val |-> n]
PyList(s) == [type |-> "list", val |-> s]
PyDict(f) == [type |-> "dict", val |-> f]

\* str(v) as an f-string renders it
Str(v) == IF v.type = "int" THEN ToString(v.val) ELSE v.val

\* bool(v) for the values the code tests
Truthy(v) ==
    CASE v.type = "NoneType" -> FALSE
      [] v.type = "str" -> v.val # ""
      [] v.type = "list" -> v.val # <<>>
      [] v.type = "int" -> v.val # 0
      [] OTHER -> TRUE

\* type(v) as an f-string renders it
TypeRepr(v) == "<class '" \o v.type \o "'>"

\* d.get(k, default) on the keys of a dict
Get(d, k, default) == IF k \in DOMAIN d THEN d[k] ELSE default

Raise(exc, text) == [raised |-> TRUE, exc |-> exc, text |-> text]
Return(v) == [raised |-> FALSE, value |-> v]

RECURSIVE Join(_, _)
\* sep.join(names)
Join(names, sep) ==
    IF names = <<>> THEN ""
    ELSE IF Len(names) = 1 THEN names[1]
    ELSE names[1] \o sep \o Join(Tail(names), sep)

-----------------------------------------------------------------------------
(* Module constants *)

RETRY_PERIOD == 600

HOMEWORK_VERDICTS ==
    [approved |-> "Work checked: the reviewer liked everything. Hooray!",
     reviewing |-> "Work taken for review by the reviewer.",
     rejected |-> "Work checked: the reviewer has remarks."]

TokenNames == <<"PRACTICUM_TOKEN", "TELEGRAM_TOKEN", "TELEGRAM_CHAT_ID">>

-----------------------------------------------------------------------------
(* check_tokens *)

RECURSIVE MissingFrom(_, _)
\* the loop of check_tokens over required_tokens from position i on
MissingFrom(e, i) ==
    IF i > Len(TokenNames) THEN <<>>
    ELSE IF ~Truthy(e[TokenNames[i]])
         THEN <<TokenNames[i]>> \o MissingFrom(e, i + 1)
         ELSE MissingFrom(e, i + 1)

RECURSIVE FirstMissingFrom(_, _)
FirstMissingFrom(e, i) ==
    IF i > Len(TokenNames) THEN <<>>
    ELSE IF ~Truthy(e[TokenNames[i]]) THEN <<TokenNames[i]>>
         ELSE FirstMissingFrom(e, i + 1)

TokenCheck(missing) ==
    IF missing # <<>>
    THEN [raised |-> TRUE, exc |-> "TokenMissingError", missing |-> missing,
          text |-> "Missing variables: " \o Join(missing, ", ")]
    ELSE [raised |-> FALSE, exc |-> "", missing |-> missing, text |-> ""]

\* mutant: stops at the first missing variable
check_tokens_FirstOnly(e) == TokenCheck(FirstMissingFrom(e, 1))

\* mutant: tests "token is None", so an empty variable passes
check_tokens_NoneOnly(e) ==
    TokenCheck(SelectSeq(MissingFrom(e, 1), LAMBDA n : e[n].type = "NoneType"))

check_tokens(e) == TokenCheck(MissingFrom(e, 1))

-----------------------------------------------------------------------------
(* send_message, get_api_answer, check_response, parse_status *)

\* what bot.send_message does on one call
SendOutcomes == {"ok", "ApiTelegramException", "RequestException"}

send_message(message, outcome) ==
    IF outcome = "ok" THEN Return(TRUE)
    ELSE Raise("APIRequestError", "Message send error: " \o outcome)

\* mutant: a non-success status raises what response.raise_for_status() raises
get_api_answer_RaiseForStatus(ts, http) ==
    IF http.kind = "exception"
    THEN Raise("APIRequestError", "API request error: " \o http.cause)
    ELSE IF http.status_code # 200
    THEN Raise("HTTPError", ToString(http.status_code) \o " Server Error")
    ELSE IF http.json.type = "invalid"
    THEN Raise("JSONDecodeError", http.json.val)
    ELSE Return(http.json)

get_api_answer(ts, http) ==
    IF http.kind = "exception"
    THEN Raise("APIRequestError", "API request error: " \o http.cause)
    ELSE IF http.status_code # 200
    THEN Raise("APIRequestError",
               "API response error: " \o ToString(http.status_code)
                   \o ", " \o http.text)
    ELSE IF http.json.type = "invalid"
    THEN Raise("JSONDecodeError", http.json.val)
    ELSE Return(http.json)

\* mutant: a transport exception is retried once inside the function
Requests_Retry(ts, http) ==
    IF http.kind = "exception"
    THEN <<[params |-> [from_date |-> ts]], [params |-> [from_date |-> ts]]>>
    ELSE <<[params |-> [from_date |-> ts]]>>

\* mutant: every query asks from the epoch instead of from the cursor
Requests_FromZero(ts, http) == <<[params |-> [from_date |-> PyInt(0)]]>>

\* the HTTP GETs one call of get_api_answer issues: requests.get(ENDPOINT,
\* headers=HEADERS, params={'from_date': timestamp}), once, whatever it does
Requests(ts, http) == <<[params |-> [from_date |-> ts]]>>

\* mutant: the homeworks value is read before the key is looked for
check_response_NoKeyCheck(response) ==
    IF response.type # "dict"
    THEN Raise("TypeError",
               "Expected a dict in the API response, got " \o TypeRepr(response))
    ELSE IF "homeworks" \notin DOMAIN response.val
    THEN Raise("KeyError", "'homeworks'")
    ELSE LET homeworks == response.val["homeworks"] IN
         IF homeworks.type # "list"
         THEN Raise("TypeError",
                    "\"homeworks\" must be a list, got " \o TypeRepr(homeworks))
         ELSE Return(homeworks.val)

check_response(response) ==
    IF response.type # "dict"
    THEN Raise("TypeError",
               "Expected a dict in the API response, got " \o TypeRepr(response))
    ELSE IF "homeworks" \notin DOMAIN response.val
    THEN Raise("APIResponseFormatError", "Key \"homeworks\" is missing.")
    ELSE LET homeworks == response.val["homeworks"] IN
         IF homeworks.type # "list"
         THEN Raise("TypeError",
                    "\"homeworks\" must be a list, got " \o TypeRepr(homeworks))
         ELSE Return(homeworks.val)

\* mutant: the status is checked before the name
parse_status_StatusFirst(homework) ==
    IF homework.type # "dict"
    THEN Raise("AttributeError",
               "'" \o homework.type \o "' object has no attribute 'get'")
    ELSE
    LET homework_name == Get(homework.val, "homework_name", None)
        status == Get(homework.val, "status", None)
    IN  IF ~(status.type = "str" /\ status.val \in DOMAIN HOMEWORK_VERDICTS)
        THEN Raise("StatusUnknownError", "Unknown status: " \o Str(status))
        ELSE IF homework_name.type = "NoneType"
        THEN Raise("APIResponseFormatError", "The response has no homework name.")
        ELSE Return("Review status changed for work \"" \o Str(homework_name)
                        \o "\". " \o HOMEWORK_VERDICTS[status.val])

parse_status(homework) ==
    IF homework.type # "dict"
    THEN Raise("AttributeError",
               "'" \o homework.type \o "' object has no attribute 'get'")
    ELSE
    LET homework_name == Get(homework.val, "homework_name", None)
        status == Get(homework.val, "status", None)
    IN  IF homework_name.type = "NoneType"
        THEN Raise("APIResponseFormatError", "The response has no homework name.")
        ELSE IF ~(status.type = "str" /\ status.val \in DOMAIN HOMEWORK_VERDICTS)
        THEN Raise("StatusUnknownError", "Unknown status: " \o Str(status))
        ELSE Return("Review status changed for work \"" \o Str(homework_name)
                        \o "\". " \o HOMEWORK_VERDICTS[status.val])

-----------------------------------------------------------------------------
(* main: one iteration of the while loop *)

\* a call of bot.send_message as the transport sees it
Call(message, outcome) == [message |-> message, outcome |-> outcome]

\* the result of the try block: the locals it leaves, the calls it made and
\* the exception that left it, if any
Left(ts, lm, calls, sent) ==
    [timestamp |-> ts, last_message |-> lm, calls |-> calls,
     raised |-> sent.raised, error |-> IF sent.raised THEN sent.text ELSE ""]

\* mutant: the cursor is advanced before the send is known to have succeeded
SendBranch_AdvanceFirst(ts, lm, response, message, outcome) ==
    LET sent == send_message(message, outcome) IN
    IF sent.raised
    THEN Left(Get(response.val, "current_date", ts), lm,
              <<Call(message, outcome)>>, sent)
    ELSE Left(Get(response.val, "current_date", ts), "",
              <<Call(message, outcome)>>, sent)

\* "if send_message(bot, message):" and its two assignments
SendBranch(ts, lm, response, message, outcome) ==
    LET sent == send_message(message, outcome) IN
    IF sent.raised
    THEN Left(ts, lm, <<Call(message, outcome)>>, sent)
    ELSE Left(Get(response.val, "current_date", ts), "",
              <<Call(message, outcome)>>, sent)

\* the try block; outcome is what the transport does if a status message is sent
TryBlock(ts, lm, http, outcome) ==
    LET response == get_api_answer(ts, http) IN
    IF response.raised THEN Left(ts, lm, <<>>, response)
    ELSE
    LET homeworks == check_response(response.value) IN
    IF homeworks.raised THEN Left(ts, lm, <<>>, homeworks)
    ELSE IF homeworks.value # <<>>
    THEN LET homework == homeworks.value[1]
             message == parse_status(homework)
         IN  IF message.raised THEN Left(ts, lm, <<>>, message)
             ELSE SendBranch(ts, lm, response.value, message.value, outcome)
    ELSE Left(ts, lm, <<>>, homeworks)

\* mutant: every failing cycle alerts
AlertNeeded_Always(message, lm) == TRUE

\* "if message != last_message:"
AlertNeeded(message, lm) == message # lm

\* mutant: an alert whose send failed is sent once more
ExceptBlock_Resend(t, outcome) ==
    LET message == "Program failure: " \o t.error IN
    IF AlertNeeded(message, t.last_message)
    THEN [t EXCEPT !.calls = IF outcome = "ok"
                             THEN Append(@, Call(message, outcome))
                             ELSE @ \o <<Call(message, outcome),
                                         Call(message, outcome)>>,
                   !.last_message = message]
    ELSE t

\* mutant: last_message is assigned only when the alert was sent
ExceptBlock_SetOnSuccess(t, outcome) ==
    LET message == "Program failure: " \o t.error IN
    IF AlertNeeded(message, t.last_message)
    THEN [t EXCEPT !.calls = Append(@, Call(message, outcome)),
                   !.last_message = IF outcome = "ok" THEN message ELSE @]
    ELSE t

\* the except block; t is what the try block left, outcome what the transport
\* does if the alert is sent (an exception of that send is caught and logged)
ExceptBlock(t, outcome) ==
    LET message == "Program failure: " \o t.error IN
    IF AlertNeeded(message, t.last_message)
    THEN [t EXCEPT !.calls = Append(@, Call(message, outcome)),
                   !.last_message = message]
    ELSE t

\* mutant: the sleep is skipped when the cycle raised
AfterCycle_SkipOnError(t) == IF t.raised THEN "polling" ELSE "sleeping"

\* mutant: an exception ends the loop
AfterCycle_StopOnError(t) == IF t.raised THEN "terminated" ELSE "sleeping"

\* the finally block: time.sleep(RETRY_PERIOD) comes next
AfterCycle(t) == "sleeping"

-----------------------------------------------------------------------------
(* Inputs *)

Tokens == {None, PyStr(""), PyStr("secret")}

Envs == [{TokenNames[i] : i \in 1..Len(TokenNames)} -> Tokens]

HomeworkItems ==
    {PyDict([homework_name |-> PyStr("hw1"), status |-> PyStr("approved")]),
     PyDict([homework_name |-> PyStr("hw2"), status |-> PyStr("rejected")]),
     PyDict([status |-> PyStr("reviewing")]),
     PyDict([homework_name |-> PyStr("hw1"), status |-> PyStr("unknown")]),
     PyStr("hw1")}

HomeworkLists == UNION {[1..k -> HomeworkItems] : k \in 0..MaxRecs}

Dates == {PyInt(n) : n \in 0..MaxDate} \cup {PyStr("tomorrow")}

Payloads ==
    {PyDict([homeworks |-> PyList(l), current_date |-> d]) :
        l \in HomeworkLists, d \in Dates}
    \cup {PyDict([homeworks |-> PyList(l)]) : l \in HomeworkLists}
    \cup {PyDict([homeworks |-> PyDict(<<>>), current_date |-> d]) : d \in Dates}
    \cup {PyDict([current_date |-> d]) : d \in Dates}
    \cup {PyDict(<<>>), PyList(<<>>)}

InvalidJson == [type |-> "invalid", val |-> "Expecting value: line 1 column 1 (char 0)"]

HttpOutcomes ==
    {[kind |-> "exception", cause |-> "Connection timed out",
      status_code |-> 0, text |-> "", json |-> None]}
    \cup {[kind |-> "response", cause |-> "", status_code |-> c,
           text |-> "unavailable", json |-> InvalidJson] : c \in {404, 500}}
    \cup {[kind |-> "response", cause |-> "", status_code |-> 200,
           text |-> "", json |-> j] : j \in Payloads \cup {InvalidJson}}

-----------------------------------------------------------------------------
(* The process *)

Init ==
    /\ env \in Envs
    /\ pc = "init"
    /\ timestamp = None
    /\ last_message = ""
    /\ startup = <<>>
    /\ exit_code = <<>>
    /\ log = <<>>
    /\ prev = <<>>
    /\ slept = <<>>
    /\ did = {}
    /\ handed = <<>>
    /\ unit = <<>>
    /\ reply = <<>>

\* __main__ up to the while loop: check_tokens() raises into the except of
\* __main__, which logs and lets the process end; otherwise the loop starts
Start ==
    /\ pc = "init"
    /\ LET checked == check_tokens(env) IN
       /\ startup' = <<checked>>
       /\ IF checked.raised
          THEN /\ pc' = "terminated"
               /\ exit_code' = <<0>>
               /\ UNCHANGED <<timestamp, last_message, handed>>
          ELSE /\ \E now \in 0..MaxDate :
                     timestamp' = PyInt(now) /\ handed' = <<PyInt(now)>>
               /\ last_message' = ""
               /\ pc' = "polling"
               /\ UNCHANGED exit_code
    /\ UNCHANGED <<env, log, prev, slept, did, unit, reply>>

\* the calls of cycle record c that carry the alert built from its error
Alerts(c) ==
    SelectSeq(c.calls, LAMBDA k : k.message = "Program failure: " \o c.error)

\* the state a cycle leaves: r is the result of its try and except blocks
Finish(http, t, r) ==
    /\ reply' = <<http>>
    /\ timestamp' = r.timestamp
    /\ last_message' = r.last_message
    /\ log' = <<[ts0 |-> timestamp, lm0 |-> last_message, http |-> http,
                 gets |-> Requests(timestamp, http),
                 calls |-> r.calls, raised |-> t.raised, error |-> t.error]>>
    /\ pc' = AfterCycle(t)
    /\ slept' = <<>>
    /\ did' = did \cup {"fetch"}
                  \cup (IF r.calls # <<>> THEN {"notify"} ELSE {})
    /\ UNCHANGED <<env, startup, exit_code, prev, handed, unit>>

\* one cycle: the try block and, if it raised, the except block
Poll ==
    /\ pc = "polling"
    /\ \E http \in HttpOutcomes, s1 \in SendOutcomes :
          LET t == TryBlock(timestamp, last_message, http, s1) IN
          IF t.raised
          THEN \E s2 \in SendOutcomes : Finish(http, t, ExceptBlock(t, s2))
          ELSE Finish(http, t, t)

\* time.sleep(RETRY_PERIOD) of the finally block, then the next iteration
Sleep ==
    /\ pc = "sleeping"
    /\ pc' = "polling"
    /\ slept' = Append(slept, RETRY_PERIOD)
    /\ did' = did \cup {"sleep"}
    /\ prev' = IF log[1].raised
                THEN <<[error |-> log[1].error, alerts |-> Len(Alerts(log[1])),
                        alert_failed |->
                            \E i \in DOMAIN Alerts(log[1]) :
                                Alerts(log[1])[i].outcome # "ok",
                        from_date |-> log[1].gets[1].params.from_date]>>
                ELSE <<>>
    /\ log' = <<>>
    /\ handed' = <<timestamp>>
    /\ reply' = <<>>
    /\ UNCHANGED <<env, timestamp, last_message, startup, exit_code, unit>>

Next == Start \/ Poll \/ Sleep

Spec == Init /\ [][Next]_vars

\* the calls of one iteration's try/except return: control reaches the
\* finally block.  Under Spec this is a step of Poll, which is enabled
\* whenever pc = "polling"
PollReturns == pc = "polling" /\ pc' = "sleeping"

\* time.sleep returns: control is back at the head of the loop.  Under Spec
\* this is a step of Sleep, which is enabled whenever pc = "sleeping"
SleepReturns == pc = "sleeping" /\ pc' = "polling"

\* every fetch, every send and every sleep returns: a cycle that can run
\* runs, a sleep that has begun ends
FairSpec == Spec /\ WF_pc(PollReturns) /\ WF_pc(SleepReturns)

-----------------------------------------------------------------------------
(* The functions called directly, as their callers and tests may call them *)

\* values a caller may hand to check_response
ResponseValues ==
    Payloads \cup {None, PyStr("error"),
                   PyDict([homeworks |-> None]),
                   PyDict([homeworks |-> None, current_date |-> PyInt(0)])}

NameValues == {None, PyStr("hw1"), PyStr("hw2")}

StatusValues ==
    {None, PyStr("approved"), PyStr("reviewing"), PyStr("rejected"),
     PyStr("unknown"), PyStr("")}

\* values a caller may hand to parse_status
HomeworkValues ==
    {PyDict([homework_name |-> n, status |-> st]) :
        n \in NameValues, st \in StatusValues}
    \cup {PyDict([homework_name |-> n]) : n \in NameValues}
    \cup {PyDict([status |-> st]) : st \in StatusValues}
    \cup {PyDict(<<>>), PyStr("hw1")}

\* the record of one call
Applied(fn, arg, result) == <<[fn |-> fn, arg |-> arg, result |-> result]>>

\* the state of the process proper, which a direct call leaves alone
loop_vars == <<env, pc, timestamp, last_message, startup, exit_code, log, prev,
               slept, did, handed, reply>>

CallGetApiAnswer ==
    /\ \E ts \in {PyInt(n) : n \in 0..MaxDate}, http \in HttpOutcomes :
          unit' = Applied("get_api_answer", [timestamp |-> ts, http |-> http],
                          get_api_answer(ts, http))
    /\ UNCHANGED loop_vars

CallCheckResponse ==
    /\ \E response \in ResponseValues :
          unit' = Applied("check_response", response, check_response(response))
    /\ UNCHANGED loop_vars

CallParseStatus ==
    /\ \E homework \in HomeworkValues :
          unit' = Applied("parse_status", homework, parse_status(homework))
    /\ UNCHANGED loop_vars

UnitInit == Init /\ \A n \in DOMAIN env : env[n] = PyStr("secret")

UnitNext == CallGetApiAnswer \/ CallCheckResponse \/ CallParseStatus

SpecUnits == UnitInit /\ [][UnitNext]_vars

-----------------------------------------------------------------------------
(* Vocabulary of the properties *)

\* a credential is absent or empty
Absent(v) == v = None \/ v = PyStr("")

MissingNames == {n \in DOMAIN env : Absent(env[n])}

\* a cycle has just run and its record is in log
CycleDone == log # <<>>

\* the response carries what the specification's validator requires: a
\* mapping with a homeworks sequence and an integer current_date
WellFormed(http) ==
    /\ http.kind = "response"
    /\ http.status_code = 200
    /\ http.json.type = "dict"
    /\ {"homeworks", "current_date"} \subseteq DOMAIN http.json.val
    /\ http.json.val["homeworks"].type = "list"
    /\ http.json.val["current_date"].type = "int"

\* the cycle in log ran to the end of its try block on a well-formed response
Succeeded == CycleDone /\ ~log[1].raised /\ WellFormed(log[1].http)

Records == log[1].http.json.val["homeworks"].val

SendErrors == {"Message send error: " \o o : o \in SendOutcomes \ {"ok"}}

\* the cycle in log failed because the send of a status message failed
StatusSendFailed == CycleDone /\ log[1].raised /\ log[1].error \in SendErrors

AlertText == "Program failure: " \o log[1].error

\* the Notifier calls of the cycle in log that carry its alert
AlertCalls == Alerts(log[1])

-----------------------------------------------------------------------------
(* Properties *)

\* C1: after every fully successful cycle, one with an empty homeworks
\* sequence included, the cursor equals the current_date of the response.
\* The code leaves the cursor alone when homeworks is empty.
C1_CursorIsCurrentDate ==
    Succeeded => timestamp = log[1].http.json.val["current_date"]

\* C2: after a cycle in which fetch, validation, formatting or sending
\* raised, the cursor has the value it had before the cycle.
C2_CursorKeptOnFailure ==
    CycleDone /\ log[1].raised => timestamp = log[1].ts0

\* C2 witness: the send of a status message failed in a cycle whose response
\* carried a current_date other than the cursor.
C2_Witness ==
    /\ StatusSendFailed
    /\ WellFormed(log[1].http)
    /\ log[1].http.json.val["current_date"] # log[1].ts0
    /\ timestamp = log[1].ts0

\* C3: a failing cycle calls the Notifier with its alert exactly once when
\* the alert text differs from lastErrorText and not at all when it is equal;
\* so the second of two consecutive cycles failing with the same text sends
\* no alert (one alert across both when the first sent one), and a cycle
\* failing with another text than the cycle before it sends exactly one.
C3_AlertIffTextDiffers ==
    CycleDone /\ log[1].raised =>
        /\ Len(AlertCalls) = (IF AlertText # log[1].lm0 THEN 1 ELSE 0)
        /\ prev # <<>> =>
              /\ Len(AlertCalls) = (IF log[1].error # prev[1].error THEN 1 ELSE 0)
              /\ log[1].error = prev[1].error /\ prev[1].alerts = 1 =>
                    prev[1].alerts + Len(AlertCalls) = 1

\* C3 witness: two consecutive cycles have failed with the same text; the
\* first sent the alert and the second sent none.
C3_Witness ==
    /\ CycleDone /\ log[1].raised
    /\ prev # <<>>
    /\ prev[1].error = log[1].error
    /\ prev[1].alerts = 1
    /\ AlertCalls = <<>>

\* C4: after every fully successful cycle, one without records included,
\* lastErrorText is empty.  The code keeps last_message when homeworks is
\* empty.
C4_LastErrorCleared == Succeeded => last_message = ""

\* C5: a cycle that succeeds on n records, all of which format, calls the
\* Notifier exactly n times, once per record in the order of the response.
\* The code formats and sends homeworks[0] only.
C5_OneCallPerRecord ==
    Succeeded /\ (\A i \in DOMAIN Records : ~parse_status(Records[i]).raised) =>
        log[1].calls =
            [i \in DOMAIN Records |-> Call(parse_status(Records[i]).value, "ok")]

\* C6: every cycle, whatever its outcome, is followed by exactly one sleep of
\* the fixed interval before the next cycle starts.
C6_OneSleepPerCycle ==
    /\ CycleDone => pc = "sleeping" /\ slept = <<>>
    /\ pc = "polling" /\ "fetch" \in did => slept = <<RETRY_PERIOD>> /\ ~CycleDone

\* C6 witness: the loop is back at the fetch after a failing cycle and one
\* sleep.
C6_Witness == pc = "polling" /\ prev # <<>> /\ slept = <<RETRY_PERIOD>>

\* C7: the cursor never decreases: after a cycle it is greater than or equal
\* to its value before the cycle.  The code stores whatever current_date the
\* response carries.
C7_CursorMonotonic ==
    CycleDone /\ log[1].ts0.type = "int" /\ timestamp.type = "int" =>
        timestamp.val >= log[1].ts0.val

\* C8: a failed send of a status message is swallowed: no alert about it goes
\* through the Notifier and lastErrorText is not changed.  The code raises
\* APIRequestError out of send_message into the except block of main.
C8_SendFailureSwallowed ==
    StatusSendFailed =>
        /\ Len(log[1].calls) = 1
        /\ last_message = log[1].lm0

\* C9: with any of the three credentials absent or empty the process never
\* enters the poll loop: no fetch, no Notifier call, no sleep, and after the
\* check the process is terminated.
C9_NoLoopWithoutCredentials ==
    MissingNames # {} =>
        /\ pc \in {"init", "terminated"}
        /\ startup # <<>> => pc = "terminated" /\ startup[1].raised
        /\ did = {} /\ log = <<>> /\ slept = <<>>

\* C9 witness: the process has terminated on an empty TELEGRAM_CHAT_ID, the
\* other two credentials being present.
C9_Witness ==
    /\ pc = "terminated"
    /\ env["TELEGRAM_CHAT_ID"] = PyStr("")
    /\ MissingNames = {"TELEGRAM_CHAT_ID"}

\* C10: check_tokens succeeds when no credential is absent or empty and
\* otherwise raises one TokenMissingError whose names are exactly the missing
\* ones, none omitted, none added, none repeated.
C10_ExactlyTheMissingNames ==
    startup # <<>> =>
        LET checked == startup[1] IN
        /\ checked.raised <=> MissingNames # {}
        /\ {checked.missing[i] : i \in DOMAIN checked.missing} = MissingNames
        /\ Len(checked.missing) = Cardinality(MissingNames)
        /\ checked.raised =>
              /\ checked.exc = "TokenMissingError"
              /\ checked.text = "Missing variables: " \o Join(checked.missing, ", ")

\* C10 witness: the first and the third credential are missing and both are
\* named.
C10_Witness ==
    /\ startup # <<>>
    /\ startup[1].missing = <<"PRACTICUM_TOKEN", "TELEGRAM_CHAT_ID">>
    /\ env["PRACTICUM_TOKEN"] = None
    /\ env["TELEGRAM_CHAT_ID"] = PyStr("")

\* C11: the process ends with a nonzero exit status when the credential check
\* fails at startup, and with a nonzero status in no other case.  The code
\* catches TokenMissingError in __main__, logs it and ends with status 0.
C11_NonzeroExitOnlyOnCredentialFailure ==
    /\ pc = "terminated" /\ startup[1].raised =>
          exit_code # <<>> /\ exit_code[1] # 0
    /\ exit_code # <<>> /\ exit_code[1] # 0 => startup # <<>> /\ startup[1].raised

\* the response lacks current_date or carries one that is no integer, and is
\* otherwise what check_response accepts
BadDate(http) ==
    /\ http.kind = "response"
    /\ http.status_code = 200
    /\ http.json.type = "dict"
    /\ "homeworks" \in DOMAIN http.json.val
    /\ http.json.val["homeworks"].type = "list"
    /\ \/ "current_date" \notin DOMAIN http.json.val
       \/ http.json.val["current_date"].type # "int"

\* C12: a response without current_date, or with one that is no integer, is
\* rejected by validation: the cycle fails, none of its records is notified
\* and lastErrorText is not cleared (stated for responses that carry
\* records).  check_response never looks at current_date.
C12_BadDateRejected ==
    CycleDone /\ BadDate(log[1].http) /\ Records # <<>> =>
        /\ log[1].raised
        /\ log[1].calls = AlertCalls
        /\ last_message = AlertText

\* C13: check_response classifies a payload by the first failing check: a
\* non-mapping yields TypeError (ShapeError); a mapping without the key
\* homeworks, the empty mapping included, yields APIResponseFormatError
\* (FormatError) naming homeworks; a homeworks value that is no list yields
\* TypeError; otherwise the homeworks sequence is returned as it came.
C13_CheckResponseClassifies ==
    unit # <<>> /\ unit[1].fn = "check_response" =>
        LET response == unit[1].arg
            result == unit[1].result
        IN  IF response.type # "dict"
            THEN result.raised /\ result.exc = "TypeError"
            ELSE IF "homeworks" \notin DOMAIN response.val
            THEN /\ result.raised
                 /\ result.exc = "APIResponseFormatError"
                 /\ result.text = "Key \"homeworks\" is missing."
            ELSE IF response.val["homeworks"].type # "list"
            THEN result.raised /\ result.exc = "TypeError"
            ELSE ~result.raised /\ result.value = response.val["homeworks"].val

\* C13 witness: check_response has been called on the empty mapping and has
\* raised the format error.
C13_Witness ==
    /\ unit # <<>> /\ unit[1].fn = "check_response"
    /\ unit[1].arg = PyDict(<<>>)
    /\ unit[1].result.raised
    /\ unit[1].result.exc = "APIResponseFormatError"

\* the record carries a name
HasName(homework) ==
    /\ "homework_name" \in DOMAIN homework.val
    /\ homework.val["homework_name"].type # "NoneType"

\* the record carries one of the three statuses of the verdict map
HasKnownStatus(homework) ==
    /\ "status" \in DOMAIN homework.val
    /\ homework.val["status"].type = "str"
    /\ homework.val["status"].val \in {"approved", "reviewing", "rejected"}

\* the status as the error message names it
StatusNamed(homework) ==
    IF "status" \in DOMAIN homework.val
    THEN homework.val["status"].val ELSE "None"

\* C14: parse_status on a record: without a name it raises
\* APIResponseFormatError, also when the status is unknown; with a name and a
\* status outside {approved, reviewing, rejected} it raises
\* StatusUnknownError naming the status; otherwise it returns the fixed
\* prefix, the quoted name and the verdict mapped to the status.
C14_ParseStatusByCases ==
    unit # <<>> /\ unit[1].fn = "parse_status" /\ unit[1].arg.type = "dict" =>
        LET homework == unit[1].arg
            result == unit[1].result
        IN  IF ~HasName(homework)
            THEN result.raised /\ result.exc = "APIResponseFormatError"
            ELSE IF ~HasKnownStatus(homework)
            THEN /\ result.raised
                 /\ result.exc = "StatusUnknownError"
                 /\ result.text = "Unknown status: " \o StatusNamed(homework)
            ELSE /\ ~result.raised
                 /\ result.value =
                       "Review status changed for work \""
                           \o homework.val["homework_name"].val \o "\". "
                           \o HOMEWORK_VERDICTS[homework.val["status"].val]

\* C14 witness: parse_status has been called on a record with an unknown
\* status and no name and has raised the format error.
C14_Witness ==
    /\ unit # <<>> /\ unit[1].fn = "parse_status"
    /\ unit[1].arg = PyDict([status |-> PyStr("unknown")])
    /\ unit[1].result.raised
    /\ unit[1].result.exc = "APIResponseFormatError"

\* C17: get_api_answer raises APIRequestError, and nothing else, on a
\* transport exception and on a status other than 200, the message of the
\* latter carrying the status code; it returns a payload only on status 200.
C17_FetchErrorsAreTransportErrors ==
    unit # <<>> /\ unit[1].fn = "get_api_answer" =>
        LET http == unit[1].arg.http
            result == unit[1].result
        IN  /\ http.kind = "exception" =>
                  result.raised /\ result.exc = "APIRequestError"
            /\ http.kind = "response" /\ http.status_code # 200 =>
                  /\ result.raised
                  /\ result.exc = "APIRequestError"
                  /\ result.text = "API response error: "
                         \o ToString(http.status_code) \o ", " \o http.text
            /\ ~result.raised =>
                  /\ http.kind = "response"
                  /\ http.status_code = 200
                  /\ result.value = http.json

\* C17 witness: get_api_answer has been called, the API answered 500 and the
\* call raised APIRequestError.
C17_Witness ==
    /\ unit # <<>> /\ unit[1].fn = "get_api_answer"
    /\ unit[1].arg.http.status_code = 500
    /\ unit[1].result.raised
    /\ unit[1].result.exc = "APIRequestError"

\* C15: a cycle issues exactly one fetch, whatever its outcome, and fetches
\* and sleeps alternate: no sleep has happened when a cycle ends and exactly
\* one has completed when the next fetch is due.
C15_OneFetchPerCycle ==
    /\ CycleDone => Len(log[1].gets) = 1 /\ slept = <<>>
    /\ pc = "polling" /\ "fetch" \in did => Len(slept) = 1

\* C15 witness: a cycle after the first has run, its fetch failed in the
\* transport, and it issued one request.
C15_Witness ==
    /\ CycleDone
    /\ "sleep" \in did
    /\ log[1].http.kind = "exception"
    /\ Len(log[1].gets) = 1

InLoop == pc \in {"polling", "sleeping"}

\* C16: once the loop has been entered no error ends it: the process stays
\* in POLLING and SLEEPING, and unless the loop is never entered POLLING
\* (and SLEEPING) recur for ever.
C16_LoopNeverEnds ==
    /\ [][InLoop => InLoop']_vars
    /\ <>[](~InLoop) \/ ([]<>(pc = "polling") /\ []<>(pc = "sleeping"))

\* C16 witness: the loop is polling again after a cycle in which the send of
\* a status message failed.
C16_Witness ==
    /\ pc = "polling"
    /\ prev # <<>>
    /\ prev[1].error \in SendErrors

\* the number of records of the response of the cycle in log
RecordCount ==
    IF /\ log[1].http.kind = "response"
       /\ log[1].http.status_code = 200
       /\ log[1].http.json.type = "dict"
       /\ "homeworks" \in DOMAIN log[1].http.json.val
       /\ log[1].http.json.val["homeworks"].type = "list"
    THEN Len(Records) ELSE 0

\* C18: within one cycle no message goes to the Notifier twice, at most one
\* alert is sent and the calls number at most the status messages plus that
\* alert, whatever each send does.
C18_NoRetryStorm ==
    CycleDone =>
        /\ \A i, j \in DOMAIN log[1].calls :
              i # j => log[1].calls[i].message # log[1].calls[j].message
        /\ Len(AlertCalls) <= 1
        /\ Len(log[1].calls) <= RecordCount + Len(AlertCalls)

\* C18 witness: the send of the status message failed and the send of the
\* alert about it failed too; the cycle made these two calls.
C18_Witness ==
    /\ StatusSendFailed
    /\ Len(log[1].calls) = 2
    /\ log[1].calls[2].outcome # "ok"

\* C19: the fetch of a cycle carries as from_date the cursor of the loop,
\* which is the cursor the loop start or the cycle before left; after a
\* failing cycle the next one asks from the same from_date.
C19_FetchCarriesCursor ==
    CycleDone =>
        LET from_date == log[1].gets[1].params.from_date IN
        /\ from_date = log[1].ts0
        /\ handed = <<from_date>>
        /\ prev # <<>> => from_date = prev[1].from_date

\* C19 witness: the cycle after a failed send of a status message has asked
\* from the same from_date as the failed one.
C19_Witness ==
    /\ CycleDone
    /\ prev # <<>>
    /\ prev[1].error \in SendErrors
    /\ log[1].gets[1].params.from_date = prev[1].from_date

\* C20: a failing cycle whose alert text differs from lastErrorText sets
\* lastErrorText to the alert text whether the alert send succeeded or not;
\* so a cycle failing with the text of the cycle before sends no alert, even
\* if the earlier alert was not delivered.
C20_LastErrorSetWhateverTheSend ==
    CycleDone /\ log[1].raised =>
        /\ AlertText # log[1].lm0 => last_message = AlertText
        /\ prev # <<>> /\ prev[1].error = log[1].error /\ prev[1].alert_failed =>
              AlertCalls = <<>>

\* C20 witness: the alert of the cycle before was not delivered and this
\* cycle, failing with the same text, has sent none.
C20_Witness ==
    /\ CycleDone /\ log[1].raised
    /\ prev # <<>>
    /\ prev[1].alert_failed
    /\ prev[1].error = log[1].error
    /\ AlertCalls = <<>>

====
